---- MODULE Spec2Model ----
(***************************************************************************)
(* Model of ino.c: an inotify based directory watcher.  main() registers   *)
(* one watch per command line path, then multiplexes with poll() between   *)
(* the console (stdin) and the inotify descriptor; handle_events() drains  *)
(* the inotify descriptor and prints one line per event record.            *)
(*                                                                         *)
(* The program is single threaded.  Its steps are split at the system      *)
(* calls, where the environment (the kernel's event queue, the operator    *)
(* typing on the console) can act between two steps of the program.        *)
(***************************************************************************)
EXTENDS Integers, Sequences, FiniteSets

(***************************************************************************)
(* Bounds of the model.                                                    *)
(***************************************************************************)
\* Largest number of PATH arguments on the command line (argc <= MaxPaths + 1).
MaxPaths == 2
\* Number of event records the kernel queues during one run.
MaxEvents == 2
\* Number of bytes the operator types on the console during one run.
MaxStdin == 2
\* sizeof buf in handle_events (4096 bytes in the source), scaled down so
\* that MaxEvents records can exceed one read.
BufSize == 48

(***************************************************************************)
(* Program constants.                                                      *)
(***************************************************************************)
\* sizeof(struct inotify_event): int wd; uint32_t mask, cookie, len.
HeaderSize == 16
IN_CLOSE_WRITE == 8
IN_CLOSE_NOWRITE == 16
IN_OPEN == 32
IN_MOVED_FROM == 64
IN_MOVED_TO == 128
IN_Q_OVERFLOW == 16384
IN_IGNORED == 32768
IN_ISDIR == 1073741824

\* (mask & bit) != 0 for a single-bit constant.
HasBit(mask, bit) == (mask \div bit) % 2 = 1

(***************************************************************************)
(* The file system the program is run against.                             *)
(***************************************************************************)
\* Path strings the operator may supply.  "/tmp/a/." names the same
\* directory as "/tmp/a"; "/nonexistent" names no directory.
Paths == {"/tmp/a", "/tmp/a/.", "/tmp/b", "/nonexistent"}

\* The directory (inode) a path names, "none" when there is none.
DirOf(path) ==
    CASE path = "/tmp/a" -> "dirA"
      [] path = "/tmp/a/." -> "dirA"
      [] path = "/tmp/b" -> "dirB"
      [] OTHER -> "none"

Dirs == {"dirA", "dirB"}

\* Shapes of the event records the kernel queues: mask, len (the padded
\* length of the name field, a multiple of HeaderSize) and name.  A file
\* name may hold any byte but '/' and NUL, a line break included.
EventShapes ==
    { [mask |-> IN_OPEN, len |-> 16, name |-> "x.txt"],
      [mask |-> IN_CLOSE_WRITE, len |-> 16, name |-> "x.txt"],
      [mask |-> IN_ISDIR + IN_MOVED_FROM + IN_OPEN, len |-> 32,
       name |-> "a-long-directory-name"],
      [mask |-> IN_MOVED_TO, len |-> 16, name |-> "two\nlines"],
      [mask |-> IN_IGNORED, len |-> 0, name |-> ""] }

\* Bytes the operator may type.
Bytes == {"x", "\n"}

VARIABLES
    argc,       \* main: number of arguments, program name included
    argv,       \* main: argv[0..argc-1]
    pc,         \* position of the program
    fd,         \* the inotify descriptor: "none", "open" or "closed"
    wd,         \* the table of watch descriptors, wd[0..argc-1]; <<>> before calloc
    i,          \* main: index of the registration loop
    revents,    \* fds[0].revents & POLLIN, fds[1].revents & POLLIN of the last poll
    len,        \* handle_events: result of the last read of the descriptor
    errno,      \* errno of the last failed system call
    buf,        \* handle_events: the records the last read put in buf
    ptr,        \* handle_events: offset of the decoding cursor in buf
    passReads,  \* handle_events: reads that returned records in this call
    nread,      \* main: result of the last read of stdin
    stdout,     \* the chunks printf wrote, in order
    stderr,     \* the chunks perror and fprintf(stderr) wrote, in order
    exitStatus, \* "none" while running, else the argument of exit()
    closeCalls, \* number of close(fd) calls made
    freeCalls,  \* number of free(wd) calls made
    watches,    \* kernel: watch descriptor of each watched directory, 0 if none
    nextWd,     \* kernel: the next watch descriptor to hand out
    queue,      \* kernel: event records queued on the descriptor
    generated,  \* kernel: number of records queued so far
    history,    \* kernel: the records queued so far, in order
    delivered,  \* kernel: number of records handed to read() so far
    stdin,      \* console: bytes typed and not yet read
    typed,      \* console: number of bytes typed so far
    stdinEof    \* console: end of stream reached

vars == << argc, argv, pc, fd, wd, i, revents, len, errno, buf, ptr, passReads,
           nread, stdout, stderr, exitStatus, closeCalls, freeCalls, watches, nextWd,
           queue, generated, history, delivered, stdin, typed, stdinEof >>

progVars == << argc, argv, pc, fd, wd, i, revents, len, errno, buf, ptr, passReads,
               nread, stdout, stderr, exitStatus, closeCalls, freeCalls >>
kernelVars == << watches, nextWd, queue, generated, history, delivered >>
consoleVars == << stdin, typed, stdinEof >>


(***************************************************************************)
(* Pure parts of the code.                                                 *)
(***************************************************************************)
\* Command lines: argv[0] is the program name, argv[1..argc-1] the paths.
ArgVectors ==
    UNION { { [k \in 0..n |-> IF k = 0 THEN "ino" ELSE f[k]] : f \in [1..n -> Paths] }
            : n \in 0..MaxPaths }

\* Number of bytes a record occupies in the buffer.
RecordSize(event) == HeaderSize + event.len

RECURSIVE SizeOf(_)
\* Number of bytes a sequence of records occupies.
SizeOf(records) ==
    IF records = << >> THEN 0
    ELSE RecordSize(Head(records)) + SizeOf(Tail(records))

\* read(fd, buf, sizeof buf) on the inotify descriptor copies whole records
\* for as long as the next one fits: the number of records one read takes.
Fitting(q) ==
    CHOOSE k \in 0..Len(q) :
        /\ SizeOf(SubSeq(q, 1, k)) <= BufSize
        /\ k < Len(q) => SizeOf(SubSeq(q, 1, k + 1)) > BufSize

\* What the code does with the result of read(): lines 28-37.
ReadBranch(n, e) ==
    IF n = -1 /\ e # "EAGAIN" THEN "fatal"
    ELSE IF n <= 0 THEN "return"
    ELSE "decode"

\* The header fields the cursor may point at.  At the start of a whole
\* record it is that record; anywhere else the bytes are not a header the
\* kernel wrote, and any value may be read.
StaleEvents ==
    { [wd |-> w, mask |-> s.mask, len |-> s.len, name |-> s.name] :
        w \in {-1, 1}, s \in EventShapes }

\* Mutant of EventsAt: the cursor always finds the last record of the buffer.
EventsAtLast(records, offset) == { records[Len(records)] }

EventsAt(records, offset) ==
    IF \E k \in 1..Len(records) : SizeOf(SubSeq(records, 1, k - 1)) = offset
    THEN { records[k] : k \in { j \in 1..Len(records) :
                                  SizeOf(SubSeq(records, 1, j - 1)) = offset } }
    ELSE StaleEvents

\* Mutant of NextPtr: the cursor skips the header only.
NextPtrHeaderOnly(p, event) == p + HeaderSize

\* ptr += sizeof(struct inotify_event) + event->len: line 40.
NextPtr(p, event) == p + HeaderSize + event.len

\* Mutant of AfterRecord: the console is read as soon as a buffer is used up.
AfterRecordToConsole(p, n) == IF p < n THEN "decode" ELSE "stdin_read"

\* Mutant of AfterRecord: handle_events returns after one buffer.
AfterRecordReturn(p, n) == IF p < n THEN "decode" ELSE "poll"

\* The loop test ptr < buf + len of line 40, and where control goes when
\* the buffer is used up: back to the read of line 27.
AfterRecord(p, n) == IF p < n THEN "decode" ELSE "drain_read"

\* Mutant of KindTags: the tags come in the numeric order of their bits.
KindTagsBitOrder(mask) ==
    (IF HasBit(mask, IN_CLOSE_WRITE) THEN << "IN_CLOSE_WRITE: " >> ELSE << >>)
    \o (IF HasBit(mask, IN_CLOSE_NOWRITE) THEN << "IN_CLOSE_NOWRITE: " >> ELSE << >>)
    \o (IF HasBit(mask, IN_OPEN) THEN << "IN_OPEN: " >> ELSE << >>)
    \o (IF HasBit(mask, IN_MOVED_FROM) THEN << "IN_MOVED_FROM: " >> ELSE << >>)
    \o (IF HasBit(mask, IN_MOVED_TO) THEN << "IN_MOVED_TO: " >> ELSE << >>)

\* The kind tags printed for a mask, in the order of the tests: lines 44-53.
KindTags(mask) ==
    (IF HasBit(mask, IN_OPEN) THEN << "IN_OPEN: " >> ELSE << >>)
    \o (IF HasBit(mask, IN_CLOSE_NOWRITE) THEN << "IN_CLOSE_NOWRITE: " >> ELSE << >>)
    \o (IF HasBit(mask, IN_CLOSE_WRITE) THEN << "IN_CLOSE_WRITE: " >> ELSE << >>)
    \o (IF HasBit(mask, IN_MOVED_FROM) THEN << "IN_MOVED_FROM: " >> ELSE << >>)
    \o (IF HasBit(mask, IN_MOVED_TO) THEN << "IN_MOVED_TO: " >> ELSE << >>)

\* Mutant of Resolve: the loop keeps the last matching entry.
ResolveLast(w, n, id) ==
    IF \E j \in 1..(n - 1) : w[j] = id
    THEN CHOOSE j \in 1..(n - 1) :
            /\ w[j] = id
            /\ \A h \in (j + 1)..(n - 1) : w[h] # id
    ELSE n

\* The index at which the loop of lines 56-61 stops: the first entry of
\* wd[1..n-1] equal to id, or n when there is none.
Resolve(w, n, id) ==
    IF \E j \in 1..(n - 1) : w[j] = id
    THEN CHOOSE j \in 1..(n - 1) :
            /\ w[j] = id
            /\ \A h \in 1..(j - 1) : w[h] # id
    ELSE n

\* Mutant of DirChunk: without a match the last path is printed.
DirChunkLastPath(w, n, av, id) ==
    IF Resolve(w, n, id) < n THEN << av[Resolve(w, n, id)] \o "/" >>
    ELSE << av[n - 1] \o "/" >>

\* printf("%s/", argv[i]) for the entry found, nothing without a match.
DirChunk(w, n, av, id) ==
    IF Resolve(w, n, id) < n THEN << av[Resolve(w, n, id)] \o "/" >> ELSE << >>

\* printf("%s", event->name) when event->len is not 0: lines 64-65.
NameChunk(event) == IF event.len # 0 THEN << event.name >> ELSE << >>

\* The type of filesystem object: lines 68-71.
ObjectKind(mask) == IF HasBit(mask, IN_ISDIR) THEN " [directory]\n" ELSE " [file]\n"

\* Mutant of Line: a record without a tracked kind bit prints nothing.
LineTrackedOnly(w, n, av, event) ==
    IF KindTags(event.mask) = << >> THEN << >>
    ELSE KindTags(event.mask) \o DirChunk(w, n, av, event.wd)
         \o NameChunk(event) \o << ObjectKind(event.mask) >>

\* Everything one iteration of the loop over events prints: lines 43-71.
Line(w, n, av, event) ==
    KindTags(event.mask) \o DirChunk(w, n, av, event.wd)
    \o NameChunk(event) \o << ObjectKind(event.mask) >>

\* Mutant of Dispatch: the inotify descriptor is looked at first.
DispatchNotifyFirst(rev) ==
    IF rev[1] THEN "drain_read"
    ELSE IF rev[0] THEN "stdin_read"
    ELSE "poll"

\* Which branch main takes after a successful poll: lines 154-165.
Dispatch(rev) ==
    IF rev[0] THEN "stdin_read"
    ELSE IF rev[1] THEN "drain_read"
    ELSE "poll"

\* Mutant of StdinLoopContinues: the newline does not end the loop.
StdinLoopToEndOfStream(n, byte) == n > 0

\* The test of the loop that empties stdin: line 157.
StdinLoopContinues(n, byte) == n > 0 /\ byte # "\n"

\* The chunks that end an event line.
EndChunks == {" [directory]\n", " [file]\n"}

\* Number of event lines written to stdout.
EventLines(out) == Cardinality({ k \in 1..Len(out) : out[k] \in EndChunks })

\* Mutant of FatalStatus: a fatal error exits with status 0.
FatalStatusZero == "EXIT_SUCCESS"

\* The argument of exit() on the fatal paths: lines 30, 87, 99, 106, 118, 147.
FatalStatus == "EXIT_FAILURE"

\* The argument of exit() after the wait loop: line 174.
CleanStatus == "EXIT_SUCCESS"

\* Mutant of WaitRetried: an interrupted poll is treated like any failure.
WaitRetriedNever(e) == FALSE

\* The test errno == EINTR of line 144: the wait is entered again.
WaitRetried(e) == e = "EINTR"

(***************************************************************************)
(* The states of the multiplexer, read off the program position.           *)
(***************************************************************************)
MuxState ==
    CASE pc \in {"start", "init", "calloc", "register"} -> "STARTUP"
      [] pc = "poll" -> "WAITING"
      [] pc \in {"drain_read", "decode"} -> "DRAINING_EVENTS"
      [] pc = "stdin_read" -> "SHUTTING_DOWN"
      [] pc = "exited" /\ exitStatus = "EXIT_SUCCESS" -> "STOPPED"
      [] OTHER -> "FAILED"

Running == pc # "exited"

(***************************************************************************)
(* Initial state: the process has been started with some command line.     *)
(***************************************************************************)
Init ==
    /\ argv \in ArgVectors
    /\ argc = Cardinality(DOMAIN argv)
    /\ pc = "start"
    /\ fd = "none"
    /\ wd = << >>
    /\ i = 0
    /\ revents = [k \in {0, 1} |-> FALSE]
    /\ len = 0
    /\ errno = "none"
    /\ buf = << >>
    /\ ptr = 0
    /\ passReads = 0
    /\ nread = 0
    /\ stdout = << >>
    /\ stderr = << >>
    /\ exitStatus = "none"
    /\ closeCalls = 0
    /\ freeCalls = 0
    /\ watches = [d \in Dirs |-> 0]
    /\ nextWd = 1
    /\ queue = << >>
    /\ generated = 0
    /\ history = << >>
    /\ delivered = 0
    /\ stdin = << >>
    /\ typed = 0
    /\ stdinEof = FALSE

(***************************************************************************)
(* main: startup, lines 85-138.                                            *)
(***************************************************************************)
\* argc < 2: print the usage and exit(EXIT_FAILURE), lines 85-88.
UsageError ==
    /\ pc = "start"
    /\ argc < 2
    /\ stdout' = Append(stdout, "Usage: ino PATH [PATH ...]\n")
    /\ pc' = "exited"
    /\ exitStatus' = FatalStatus
    /\ UNCHANGED << argc, argv, fd, wd, i, revents, len, errno, buf, ptr, passReads, nread,
                    stderr, closeCalls, freeCalls >>
    /\ UNCHANGED << kernelVars, consoleVars >>

\* The banner and inotify_init1(IN_NONBLOCK), lines 90-100.
InotifyInit ==
    /\ pc = "start"
    /\ argc >= 2
    /\ stdout' = Append(stdout, "Press ENTER key to exit.\n")
    /\ \E ok \in BOOLEAN :
         IF ok
         THEN /\ fd' = "open"
              /\ pc' = "calloc"
              /\ UNCHANGED << errno, stderr, exitStatus >>
         ELSE /\ errno' = "EMFILE"
              /\ stderr' = Append(stderr, "inotify_init1: EMFILE\n")
              /\ pc' = "exited"
              /\ exitStatus' = FatalStatus
              /\ fd' = fd
    /\ UNCHANGED << argc, argv, wd, i, revents, len, buf, ptr, passReads, nread,
                    closeCalls, freeCalls >>
    /\ UNCHANGED << kernelVars, consoleVars >>

\* wd = calloc(argc, sizeof(int)), lines 103-107; the loop starts at i = 1.
Calloc ==
    /\ pc = "calloc"
    /\ \E ok \in BOOLEAN :
         IF ok
         THEN /\ wd' = [k \in 0..(argc - 1) |-> 0]
              /\ i' = 1
              /\ pc' = "register"
              /\ UNCHANGED << errno, stderr, exitStatus >>
         ELSE /\ errno' = "ENOMEM"
              /\ stderr' = Append(stderr, "calloc: ENOMEM\n")
              /\ pc' = "exited"
              /\ exitStatus' = FatalStatus
              /\ UNCHANGED << wd, i >>
    /\ UNCHANGED << argc, argv, fd, revents, len, buf, ptr, passReads, nread, stdout,
                    closeCalls, freeCalls >>
    /\ UNCHANGED << kernelVars, consoleVars >>

\* What inotify_add_watch(fd, path, ...) may return: -1 for a path that
\* names no directory, and possibly for any path (limit on the number of
\* watches); the existing watch descriptor for a directory that is already
\* watched, else a fresh one.
AddWatchResults(path) ==
    {-1} \cup (IF DirOf(path) = "none" THEN {}
               ELSE IF watches[DirOf(path)] # 0 THEN {watches[DirOf(path)]}
               ELSE {nextWd})

\* Mutant of StoreWd: the descriptor is stored one entry too low.
StoreWdOffByOne(w, k, id) == [w EXCEPT ![k - 1] = id]

\* The table after wd[i] = inotify_add_watch(...): line 114.
StoreWd(w, k, id) == [w EXCEPT ![k] = id]

\* Mutant of WatchFailed: the test is against 0.
WatchFailedZero(id) == id = 0

\* The test wd[i] == -1 of line 115.
WatchFailed(id) == id = -1

\* One iteration of the registration loop, lines 113-120, and, after the
\* last one, the "Listening" banner of line 138.
AddWatch ==
    /\ pc = "register"
    /\ i < argc
    /\ \E id \in AddWatchResults(argv[i]) :
         /\ wd' = StoreWd(wd, i, id)
         /\ IF id = -1
            THEN /\ errno' = (IF DirOf(argv[i]) = "none" THEN "ENOENT" ELSE "ENOSPC")
                 /\ UNCHANGED << watches, nextWd >>
            ELSE /\ watches' = [watches EXCEPT ![DirOf(argv[i])] = id]
                 /\ nextWd' = (IF id = nextWd THEN nextWd + 1 ELSE nextWd)
                 /\ errno' = errno
         /\ IF WatchFailed(wd'[i])
            THEN /\ stderr' = stderr \o << "Cannot watch '" \o argv[i] \o "'\n",
                                           "inotify_add_watch: " \o errno' \o "\n" >>
                 /\ pc' = "exited"
                 /\ exitStatus' = FatalStatus
                 /\ UNCHANGED << i, stdout >>
            ELSE /\ i' = i + 1
                 /\ IF i + 1 < argc
                    THEN /\ pc' = "register"
                         /\ stdout' = stdout
                    ELSE /\ pc' = "poll"
                         /\ stdout' = Append(stdout, "Listening for events.\n")
                 /\ UNCHANGED << stderr, exitStatus >>
    /\ UNCHANGED << argc, argv, fd, revents, len, buf, ptr, passReads, nread,
                    closeCalls, freeCalls >>
    /\ UNCHANGED << queue, generated, history, delivered, consoleVars >>

(***************************************************************************)
(* main: the wait loop, lines 140-174.                                     *)
(***************************************************************************)
\* What poll() reports for the two descriptors.
StdinReady == stdin # << >> \/ stdinEof
NotifyReady == queue # << >>

\* poll() returns -1 with errno EINTR: continue, lines 142-145.  Nothing
\* but errno changes, and the wait is entered again.
PollInterrupted ==
    /\ pc = "poll"
    /\ errno' = "EINTR"
    /\ IF WaitRetried(errno')
       THEN UNCHANGED << pc, stderr, exitStatus >>
       ELSE /\ stderr' = Append(stderr, "poll: " \o errno' \o "\n")
            /\ pc' = "exited"
            /\ exitStatus' = FatalStatus
    /\ UNCHANGED << argc, argv, fd, wd, i, revents, len, buf, ptr, passReads, nread,
                    stdout, closeCalls, freeCalls >>
    /\ UNCHANGED << kernelVars, consoleVars >>

\* poll() returns -1 with another errno: perror and exit, lines 146-147.
PollFails ==
    /\ pc = "poll"
    /\ errno' = "ENOMEM"
    /\ IF WaitRetried(errno')
       THEN UNCHANGED << pc, stderr, exitStatus >>
       ELSE /\ stderr' = Append(stderr, "poll: " \o errno' \o "\n")
            /\ pc' = "exited"
            /\ exitStatus' = FatalStatus
    /\ UNCHANGED << argc, argv, fd, wd, i, revents, len, buf, ptr, passReads, nread,
                    stdout, closeCalls, freeCalls >>
    /\ UNCHANGED << kernelVars, consoleVars >>

\* poll() returns a positive number: at least one descriptor is readable.
\* The code looks at the console first and at the inotify descriptor only
\* when the console is not readable, lines 150-166.
PollReady ==
    /\ pc = "poll"
    /\ StdinReady \/ NotifyReady
    /\ revents' = [k \in {0, 1} |-> IF k = 0 THEN StdinReady ELSE NotifyReady]
    /\ pc' = Dispatch(revents')
    /\ passReads' = IF pc' = "drain_read" THEN 0 ELSE passReads
    /\ UNCHANGED << argc, argv, fd, wd, i, len, errno, buf, ptr, nread,
                    stdout, stderr, exitStatus, closeCalls, freeCalls >>
    /\ UNCHANGED << kernelVars, consoleVars >>

\* close(fd) and free(wd): lines 172-173.
Close(n) == n + 1
Free(n) == n + 1

\* One read(STDIN_FILENO, &buf, 1) of the loop of line 157.  The read takes
\* the next byte, returns 0 at end of stream, or fails; it blocks while
\* nothing is typed.  When the loop ends, so does the wait loop (break),
\* and lines 169-174 run: banner, close, free, exit(EXIT_SUCCESS).
StdinRead ==
    /\ pc = "stdin_read"
    /\ \E r \in {-1, 0, 1} :
         /\ r = 1 => stdin # << >>
         /\ r = 0 => stdin = << >> /\ stdinEof
         /\ nread' = r
         /\ stdin' = IF r = 1 THEN Tail(stdin) ELSE stdin
         /\ errno' = IF r = -1 THEN "EIO" ELSE errno
         /\ IF StdinLoopContinues(r, IF r = 1 THEN Head(stdin) ELSE "")
            THEN UNCHANGED << pc, stdout, fd, closeCalls, freeCalls, exitStatus >>
            ELSE /\ stdout' = Append(stdout, "Listening for events stopped.\n")
                 /\ fd' = "closed"
                 /\ closeCalls' = Close(closeCalls)
                 /\ freeCalls' = Free(freeCalls)
                 /\ pc' = "exited"
                 /\ exitStatus' = CleanStatus
    /\ UNCHANGED << argc, argv, wd, i, revents, len, buf, ptr, passReads, stderr >>
    /\ UNCHANGED << kernelVars, typed, stdinEof >>

(***************************************************************************)
(* handle_events, lines 16-74.                                             *)
(***************************************************************************)
\* len = read(fd, buf, sizeof buf) and the tests on it, lines 27-37.  The
\* descriptor is non-blocking: with nothing queued the read fails with
\* EAGAIN, else it returns the records that fit; it may fail otherwise.
DrainRead ==
    /\ pc = "drain_read"
    /\ \E failed \in BOOLEAN :
         LET k == Fitting(queue)
             n == IF failed \/ queue = << >> THEN -1 ELSE SizeOf(SubSeq(queue, 1, k))
             e == IF failed THEN "EIO" ELSE IF queue = << >> THEN "EAGAIN" ELSE errno
         IN /\ len' = n
            /\ errno' = e
            /\ CASE ReadBranch(n, e) = "fatal" ->
                      /\ stderr' = Append(stderr, "read: EIO\n")
                      /\ pc' = "exited"
                      /\ exitStatus' = FatalStatus
                      /\ UNCHANGED << buf, ptr, passReads, queue, delivered >>
                 [] ReadBranch(n, e) = "return" ->
                      /\ pc' = "poll"
                      /\ UNCHANGED << buf, ptr, passReads, queue, delivered, stderr,
                                      exitStatus >>
                 [] OTHER ->
                      /\ buf' = SubSeq(queue, 1, k)
                      /\ queue' = SubSeq(queue, k + 1, Len(queue))
                      /\ delivered' = delivered + k
                      /\ ptr' = 0
                      /\ passReads' = passReads + 1
                      /\ pc' = "decode"
                      /\ UNCHANGED << stderr, exitStatus >>
    /\ UNCHANGED << argc, argv, fd, wd, i, revents, nread, stdout,
                    closeCalls, freeCalls >>
    /\ UNCHANGED << watches, nextWd, generated, history, consoleVars >>

\* One iteration of the loop over events, lines 40-72: print the line of
\* the record under the cursor and advance the cursor.
DecodeRecord ==
    /\ pc = "decode"
    /\ \E event \in EventsAt(buf, ptr) :
         /\ stdout' = stdout \o Line(wd, argc, argv, event)
         /\ ptr' = NextPtr(ptr, event)
         /\ pc' = AfterRecord(ptr', len)
    /\ UNCHANGED << argc, argv, fd, wd, i, revents, len, errno, buf, passReads,
                    nread, stderr, exitStatus, closeCalls, freeCalls >>
    /\ UNCHANGED << kernelVars, consoleVars >>

(***************************************************************************)
(* The environment.                                                        *)
(***************************************************************************)
\* Something happens in a watched directory: the kernel queues a record.
\* A record equal to the last one queued is merged with it.
KernelEvent ==
    /\ Running
    /\ fd = "open"
    /\ generated < MaxEvents
    /\ \E d \in Dirs, s \in EventShapes :
         LET event == [wd |-> watches[d], mask |-> s.mask, len |-> s.len, name |-> s.name]
         IN /\ watches[d] # 0
            /\ (IF queue = << >> THEN TRUE ELSE queue[Len(queue)] # event)
            /\ queue' = Append(queue, event)
            /\ history' = Append(history, event)
    /\ generated' = generated + 1
    /\ UNCHANGED << progVars, watches, nextWd, delivered, consoleVars >>

\* The kernel's queue overflows: it queues a record with watch descriptor -1
\* and mask IN_Q_OVERFLOW, which belongs to no watch.
KernelOverflow ==
    /\ Running
    /\ fd = "open"
    /\ generated < MaxEvents
    /\ \E d \in Dirs : watches[d] # 0
    /\ LET event == [wd |-> -1, mask |-> IN_Q_OVERFLOW, len |-> 0, name |-> ""]
       IN /\ (IF queue = << >> THEN TRUE ELSE queue[Len(queue)] # event)
          /\ queue' = Append(queue, event)
          /\ history' = Append(history, event)
    /\ generated' = generated + 1
    /\ UNCHANGED << progVars, watches, nextWd, delivered, consoleVars >>

\* The operator types a byte on the console.
OperatorTypes ==
    /\ Running
    /\ ~stdinEof
    /\ typed < MaxStdin
    /\ \E b \in Bytes : stdin' = Append(stdin, b)
    /\ typed' = typed + 1
    /\ UNCHANGED << progVars, kernelVars, stdinEof >>

\* The console reaches end of stream.
OperatorCloses ==
    /\ Running
    /\ ~stdinEof
    /\ stdinEof' = TRUE
    /\ UNCHANGED << progVars, kernelVars, stdin, typed >>

Next ==
    \/ UsageError
    \/ InotifyInit
    \/ Calloc
    \/ AddWatch
    \/ PollInterrupted
    \/ PollFails
    \/ PollReady
    \/ StdinRead
    \/ DrainRead
    \/ DecodeRecord
    \/ KernelEvent
    \/ KernelOverflow
    \/ OperatorTypes
    \/ OperatorCloses

Spec == Init /\ [][Next]_vars

(***************************************************************************)
(* A notification channel that breaks its contract: a read may return a    *)
(* valid length that ends inside the last record.                          *)
(***************************************************************************)
\* Numbers of bytes that may be missing at the end of the last record.
Cuts == {8, 24}

\* A read whose valid length stops Cuts bytes short of the end of its last
\* record.  When the header of that record is complete the code finds it
\* under the cursor, with a name that runs into bytes the read did not
\* write; when the header is cut, the cursor points at bytes of which some
\* were not written by the read.
DrainReadTruncated ==
    /\ pc = "drain_read"
    /\ queue # << >>
    /\ LET k == Fitting(queue)
           last == queue[k]
       IN \E cut \in Cuts, nm \in {last.name, "?"} :
            /\ cut < RecordSize(last)
            /\ len' = SizeOf(SubSeq(queue, 1, k)) - cut
            /\ buf' = IF RecordSize(last) - cut >= HeaderSize
                      THEN Append(SubSeq(queue, 1, k - 1), [last EXCEPT !.name = nm])
                      ELSE SubSeq(queue, 1, k - 1)
            /\ queue' = SubSeq(queue, k + 1, Len(queue))
            /\ delivered' = delivered + k - 1
            /\ ptr' = 0
            /\ passReads' = passReads + 1
            /\ pc' = IF ReadBranch(len', errno) = "decode" THEN "decode" ELSE "poll"
    /\ UNCHANGED << argc, argv, fd, wd, i, revents, errno, nread, stdout, stderr,
                    exitStatus, closeCalls, freeCalls >>
    /\ UNCHANGED << watches, nextWd, generated, history, consoleVars >>

NextMalformed ==
    \/ Next
    \/ DrainReadTruncated

\* The broken channel is explored for the command lines of fewer than
\* MaxPaths paths: what the code does with a truncated buffer does not
\* depend on the number of directories.
InitMalformed == Init /\ argc <= MaxPaths

SpecMalformed == InitMalformed /\ [][NextMalformed]_vars

(***************************************************************************)
(* Properties.                                                             *)
(***************************************************************************)
\* The last read of the descriptor returned a valid length that is not the
\* sum of the sizes of whole records.
TruncatedBuffer == len > 0 /\ len # SizeOf(buf)

\* C1: when a wakeup reports both the console and the inotify descriptor
\* readable, the multiplexer goes from WAITING to SHUTTING_DOWN, and from
\* there only to STOPPED; from then on no record is taken from the
\* descriptor and no event line is written.
C1_ControlPriority ==
    [][ /\ ( /\ MuxState = "WAITING"
             /\ MuxState' \notin {"WAITING", "FAILED"}
             /\ revents'[0] /\ revents'[1] )
           => MuxState' = "SHUTTING_DOWN"
        /\ ( /\ MuxState = "SHUTTING_DOWN"
             /\ revents[0] /\ revents[1] )
           => /\ MuxState' \in {"SHUTTING_DOWN", "STOPPED"}
              /\ delivered' = delivered
              /\ buf' = buf
              /\ EventLines(stdout') = EventLines(stdout) ]_vars

\* C1 witness: shut down after a wakeup that saw both descriptors readable,
\* with a record still queued and never reported.
C1_Witness ==
    /\ MuxState = "STOPPED"
    /\ revents[0] /\ revents[1]
    /\ queue # << >>
    /\ EventLines(stdout) < generated

\* C2: a call of handle_events returns to the wait loop only on a read that
\* failed with EAGAIN, never after a read that returned records; when it
\* returns, every record queued so far has been read and reported.
C2_DrainUntilEmpty ==
    [][ (MuxState = "DRAINING_EVENTS" /\ MuxState' = "WAITING")
        => /\ len' = -1
           /\ errno' = "EAGAIN"
           /\ queue = << >>
           /\ delivered' = generated
           /\ EventLines(stdout') = generated ]_vars

\* C2 witness: back in the wait loop after a call of handle_events that
\* needed two reads to empty the descriptor.
C2_Witness ==
    /\ MuxState = "WAITING"
    /\ len = -1
    /\ errno = "EAGAIN"
    /\ passReads = 2
    /\ EventLines(stdout) = 2

\* C3 as claimed: on every exit of a process that opened the descriptor and
\* allocated the table, close(fd) and free(wd) have each run exactly once.
C3_CleanupOnEveryExit ==
    (pc = "exited" /\ fd # "none" /\ wd # << >>)
        => (closeCalls = 1 /\ freeCalls = 1)

\* C4 as claimed: a read of either channel that fails for a reason other
\* than EAGAIN or EINTR ends the process with failure status and without
\* another event line.
C4_ReadErrorFatal ==
    [][ ( \/ (pc = "stdin_read" /\ nread' = -1 /\ errno' \notin {"EAGAIN", "EINTR"})
          \/ (pc = "drain_read" /\ len' = -1 /\ errno' \notin {"EAGAIN", "EINTR"}) )
        => /\ pc' = "exited"
           /\ exitStatus' = FatalStatus
           /\ EventLines(stdout') = EventLines(stdout) ]_vars

\* C5 as claimed: once a buffer whose valid length ends inside a record has
\* been decoded, the process has ended with failure status, and no line was
\* written for the partial record.
C5_TruncatedIsFatal ==
    (TruncatedBuffer /\ pc # "decode")
        => (exitStatus = "EXIT_FAILURE" /\ EventLines(stdout) = delivered)

\* Registration k has succeeded: the loop of main is past index k.
Registered(k) == wd # << >> /\ k \in 1..(argc - 1) /\ k < i

\* Every registration has succeeded: startup is complete.
StartupDone == wd # << >> /\ i = argc

\* The first argument that names the same directory as argument k.
FirstNaming(k) ==
    CHOOSE h \in 1..k :
        /\ DirOf(argv[h]) = DirOf(argv[k])
        /\ \A g \in 1..(h - 1) : DirOf(argv[g]) # DirOf(argv[k])

\* C6 as claimed: resolving the id stored for a registered path yields
\* exactly the path string of that registration.
C6_ResolveExactPath ==
    \A k \in 1..(argc - 1) :
        Registered(k) => argv[Resolve(wd, argc, wd[k])] = argv[k]

\* C6 as amended: resolving the id stored for a registered path yields the
\* first argument that names the same directory, and an event carrying that
\* id is printed under that argument's path; this is the path of the
\* registration itself when no earlier argument names its directory, and
\* never the path of another directory.
C6_ResolveFirstOfDirectory ==
    \A k \in 1..(argc - 1) :
        Registered(k)
            => /\ Resolve(wd, argc, wd[k]) = FirstNaming(k)
               /\ DirChunk(wd, argc, argv, wd[k]) = << argv[FirstNaming(k)] \o "/" >>

\* C6 witness: two directories are watched, and an event of the second one
\* has been printed under the second path.
C6_Witness ==
    /\ StartupDone
    /\ argc = 3
    /\ DirOf(argv[1]) # DirOf(argv[2])
    /\ \E c \in 1..Len(stdout) : stdout[c] = argv[2] \o "/"

\* C7 as claimed: after startup the entries 1..argc-1 of the table hold
\* pairwise distinct ids.
C7_IdsPairwiseDistinct ==
    StartupDone
        => \A j, k \in 1..(argc - 1) : j # k => wd[j] # wd[k]

\* Two entries hold the same id exactly when their paths name the same
\* directory.
IdsMatchDirs ==
    \A j, k \in 1..(argc - 1) :
        (wd[j] = wd[k]) <=> (DirOf(argv[j]) = DirOf(argv[k]))

\* C7 as amended: after startup two entries of the table hold the same id
\* exactly when their paths name the same directory, and no entry of the
\* table changes for the rest of the run.
C7_IdsStable ==
    [][ /\ StartupDone => (wd' = wd /\ IdsMatchDirs)
        /\ StartupDone' => IdsMatchDirs' ]_vars

\* C7 witness: a run has ended after watching one directory under two
\* arguments, which hold the same id.
C7_Witness ==
    /\ StartupDone
    /\ argc = 3
    /\ wd[1] = wd[2]
    /\ MuxState = "STOPPED"

\* The lines main prints itself.
Banners ==
    { "Usage: ino PATH [PATH ...]\n", "Press ENTER key to exit.\n",
      "Listening for events.\n", "Listening for events stopped.\n" }

\* The chunks printed for the watched directory.
DirChunks == { path \o "/" : path \in Paths }

\* Number of line breaks in a chunk written to stdout.
LineBreaks(chunk) ==
    IF chunk \in EndChunks \cup Banners \cup {"two\nlines"} THEN 1 ELSE 0

RECURSIVE OutputLines(_)
\* Number of line breaks written to stdout.
OutputLines(out) ==
    IF out = << >> THEN 0
    ELSE LineBreaks(Head(out)) + OutputLines(Tail(out))

\* Number of lines of main's own among the chunks written to stdout.
BannerLines(out) == Cardinality({ c \in 1..Len(out) : out[c] \in Banners })

C9_CursorAdvance ==
    /\ pc = "decode"
         => \E k \in 0..(Len(buf) - 1) :
               /\ ptr = SizeOf(SubSeq(buf, 1, k))
               /\ EventLines(stdout) = delivered - Len(buf) + k
    /\ (pc = "drain_read" /\ len > 0)
         => /\ ptr = len
            /\ len = SizeOf(buf)
            /\ EventLines(stdout) = delivered

\* C9 witness: the loop has ended on a buffer of two records, the first
\* without a name and the second with one.
C9_Witness ==
    /\ pc = "drain_read"
    /\ len > 0
    /\ Len(buf) = 2
    /\ buf[1].len = 0
    /\ buf[2].len # 0
    /\ ptr = len

\* C10: when a registration has failed the process has exited with failure
\* status, has never reached the wait loop, and has written no event line.
C10_RegistrationFailureAborts ==
    \A k \in DOMAIN wd :
        wd[k] = -1
            => /\ pc = "exited"
               /\ exitStatus = "EXIT_FAILURE"
               /\ EventLines(stdout) = 0
               /\ \A c \in 1..Len(stdout) : stdout[c] # "Listening for events.\n"
               /\ ~revents[0] /\ ~revents[1]
               /\ len = 0

\* C10 witness: the second of two paths failed after the first one was
\* registered and had an event queued.
C10_Witness ==
    /\ wd # << >>
    /\ argc = 3
    /\ wd[1] > 0
    /\ wd[2] = -1
    /\ queue # << >>

(***************************************************************************)
(* Operator-initiated shutdown.                                            *)
(***************************************************************************)
\* C11: from the moment the console is readable in WAITING (the newline has
\* arrived) the multiplexer never enters DRAINING_EVENTS: it stays in
\* WAITING with the console still readable, goes to SHUTTING_DOWN, or the
\* wait itself fails; from SHUTTING_DOWN it only goes to STOPPED, and the
\* exit that ends SHUTTING_DOWN has success status.
C11_NewlineShutsDown ==
    [][ /\ (MuxState = "WAITING" /\ StdinReady)
            => \/ MuxState' = "WAITING" /\ StdinReady'
               \/ MuxState' = "SHUTTING_DOWN"
               \/ MuxState' = "FAILED" /\ errno' = "ENOMEM"
        /\ MuxState = "SHUTTING_DOWN"
            => \/ MuxState' = "SHUTTING_DOWN"
               \/ MuxState' = "STOPPED" /\ exitStatus' = "EXIT_SUCCESS"
      ]_vars

\* C11 witness: a single newline was typed while nothing was queued; the
\* process stopped without a single read of the inotify descriptor.
C11_Witness ==
    /\ MuxState = "STOPPED"
    /\ typed = 1
    /\ nread = 1
    /\ stdin = << >>
    /\ revents[0] /\ ~revents[1]
    /\ generated = 0
    /\ delivered = 0
    /\ EventLines(stdout) = 0

(***************************************************************************)
(* Failures of the wait.                                                   *)
(***************************************************************************)
\* C12: a poll that fails with EINTR leaves the multiplexer in WAITING and
\* changes nothing but errno (the watch table, the kernel's queue and the
\* console are as they were, so the wait is entered again and may be
\* interrupted again); a poll that fails with any other error ends the
\* process with failure status.
C12_InterruptedWaitRetried ==
    [][ (pc = "poll" /\ errno' # errno)
            => IF errno' = "EINTR"
               THEN /\ MuxState' = "WAITING"
                    /\ UNCHANGED << argc, argv, pc, fd, wd, i, revents, len, buf, ptr,
                                    passReads, nread, stdout, stderr, exitStatus,
                                    closeCalls, freeCalls >>
                    /\ UNCHANGED << kernelVars, consoleVars >>
               ELSE /\ pc' = "exited"
                    /\ exitStatus' = "EXIT_FAILURE"
                    /\ MuxState' = "FAILED"
      ]_vars

\* C12 witness: the wait was interrupted, entered again, and then returned
\* with the inotify descriptor readable.
C12_Witness ==
    /\ errno = "EINTR"
    /\ MuxState = "DRAINING_EVENTS"
    /\ passReads = 0
    /\ queue # << >>

MaskBits ==
    { IN_OPEN, IN_CLOSE_NOWRITE, IN_CLOSE_WRITE, IN_MOVED_FROM, IN_MOVED_TO,
      IN_ISDIR, IN_IGNORED }

RECURSIVE SumOf(_)
\* The mask that has exactly the bits of a set.
SumOf(bits) ==
    IF bits = {} THEN 0
    ELSE LET b == CHOOSE x \in bits : TRUE IN b + SumOf(bits \ {b})

Masks == { SumOf(bits) : bits \in SUBSET MaskBits }

\* The state in which the loop of line 40 starts on a buffer that one read
\* filled with one record: ino /tmp/a is listening, the record is its first.
InitMasks ==
    \E m \in Masks, named \in BOOLEAN :
        LET event == [wd |-> 1, mask |-> m,
                      len |-> IF named THEN 16 ELSE 0,
                      name |-> IF named THEN "x.txt" ELSE ""]
        IN /\ argv = [k \in 0..1 |-> IF k = 0 THEN "ino" ELSE "/tmp/a"]
           /\ argc = 2
           /\ pc = "decode"
           /\ fd = "open"
           /\ wd = [k \in 0..1 |-> k]
           /\ i = 2
           /\ revents = [k \in {0, 1} |-> k = 1]
           /\ len = RecordSize(event)
           /\ errno = "none"
           /\ buf = << event >>
           /\ ptr = 0
           /\ passReads = 1
           /\ nread = 0
           /\ stdout = << "Press ENTER key to exit.\n", "Listening for events.\n" >>
           /\ stderr = << >>
           /\ exitStatus = "none"
           /\ closeCalls = 0
           /\ freeCalls = 0
           /\ watches = [d \in Dirs |-> IF d = DirOf("/tmp/a") THEN 1 ELSE 0]
           /\ nextWd = 2
           /\ queue = << >>
           /\ generated = 1
           /\ history = << event >>
           /\ delivered = 1
           /\ stdin = << >>
           /\ typed = 0
           /\ stdinEof = FALSE

NextMasks == DecodeRecord

SpecMasks == InitMasks /\ [][NextMasks]_vars

\* The tracked kinds in the order in which the lines are to show them:
\* Opened, ClosedNoWrite, ClosedWrite, MovedFrom, MovedTo.
TrackedKinds ==
    << [bit |-> IN_OPEN, tag |-> "IN_OPEN: "],
       [bit |-> IN_CLOSE_NOWRITE, tag |-> "IN_CLOSE_NOWRITE: "],
       [bit |-> IN_CLOSE_WRITE, tag |-> "IN_CLOSE_WRITE: "],
       [bit |-> IN_MOVED_FROM, tag |-> "IN_MOVED_FROM: "],
       [bit |-> IN_MOVED_TO, tag |-> "IN_MOVED_TO: "] >>

\* Positions of a chunk in a sequence of chunks.
Positions(out, chunk) == { c \in 1..Len(out) : out[c] = chunk }

\* C14: when the record has been decoded, the chunks written for it are:
\* the tag of each tracked kind once when its bit is set in the mask and
\* not at all otherwise, the tags in the fixed order of TrackedKinds and
\* all before the directory, then the directory, the name if there is one,
\* and last " [directory]" when IN_ISDIR is set and " [file]" otherwise;
\* nothing else is written.
C14_TagsInFixedOrder ==
    pc # "decode"
        => LET out == SubSeq(stdout, 3, Len(stdout))
               mask == buf[1].mask
               set == { k \in 1..Len(TrackedKinds) : HasBit(mask, TrackedKinds[k].bit) }
           IN /\ \A k \in 1..Len(TrackedKinds) :
                    Cardinality(Positions(out, TrackedKinds[k].tag))
                        = (IF k \in set THEN 1 ELSE 0)
              /\ \A j, k \in set :
                    j < k => \A a \in Positions(out, TrackedKinds[j].tag),
                                b \in Positions(out, TrackedKinds[k].tag) : a < b
              /\ Positions(out, "/tmp/a/") = { Cardinality(set) + 1 }
              /\ Len(out) = Cardinality(set) + 2 + (IF buf[1].len # 0 THEN 1 ELSE 0)
              /\ buf[1].len # 0 => out[Len(out) - 1] = buf[1].name
              /\ out[Len(out)] = (IF HasBit(mask, IN_ISDIR) THEN " [directory]\n"
                                  ELSE " [file]\n")

\* C14 witness: a record with the bits of IN_CLOSE_WRITE (8), IN_OPEN (32),
\* IN_MOVED_FROM (64) and IN_ISDIR has been decoded; its line shows Opened,
\* ClosedWrite, MovedFrom in that order and ends with [directory].
C14_Witness ==
    /\ pc # "decode"
    /\ buf # << >>
    /\ buf[1].mask = IN_CLOSE_WRITE + IN_OPEN + IN_MOVED_FROM + IN_ISDIR
    /\ stdout = << "Press ENTER key to exit.\n", "Listening for events.\n",
                   "IN_OPEN: ", "IN_CLOSE_WRITE: ", "IN_MOVED_FROM: ",
                   "/tmp/a/", "x.txt", " [directory]\n" >>

(***************************************************************************)
(* Cancellation.                                                           *)
(***************************************************************************)
\* C15: SHUTTING_DOWN is entered only from WAITING, by a wait that reported
\* the console readable; from DRAINING_EVENTS the multiplexer goes only to
\* WAITING or to FAILED; and a byte typed or the console closed during a
\* drain changes nothing in the program.
C15_NoMidDrainCancellation ==
    [][ /\ (MuxState' = "SHUTTING_DOWN" /\ MuxState # "SHUTTING_DOWN")
            => MuxState = "WAITING" /\ revents'[0]
        /\ MuxState = "DRAINING_EVENTS"
            => MuxState' \in {"DRAINING_EVENTS", "WAITING", "FAILED"}
        /\ (MuxState = "DRAINING_EVENTS" /\ consoleVars' # consoleVars)
            => UNCHANGED << progVars, kernelVars >>
      ]_vars

\* C15 witness: a newline is waiting on the console while the drain, after
\* two reads of this pass, is decoding a buffer.
C15_Witness ==
    /\ pc = "decode"
    /\ passReads = 2
    /\ stdin # << >>
    /\ stdin[1] = "\n"
    /\ ~revents[0]

(***************************************************************************)
(* Order of the event lines.                                               *)
(***************************************************************************)
RECURSIVE LinesOf(_)
\* The chunks of the lines of a sequence of records, one line after another.
LinesOf(records) ==
    IF records = << >> THEN << >>
    ELSE Line(wd, argc, argv, Head(records)) \o LinesOf(Tail(records))

\* The chunks of stdout that are not lines of main's own.
EventChunks(out) ==
    LET IsEventChunk(c) == c \notin Banners IN SelectSeq(out, IsEventChunk)

\* Number of records of the buffer the cursor has not passed yet.
Undecoded ==
    Cardinality({ j \in 1..Len(buf) : SizeOf(SubSeq(buf, 1, j - 1)) >= ptr })

\* C16: at every moment the event lines on stdout are the lines of the
\* records the kernel queued first, in the order in which it queued them:
\* of all the records read so far except those of the current buffer that
\* are still to be decoded.  Hence the line of a record delivered earlier
\* precedes the line of a record delivered later, within a buffer, across
\* reads and across drain passes, whatever their directories.
C16_LinesInDeliveryOrder ==
    /\ delivered <= Len(history)
    /\ Undecoded <= delivered
    /\ EventChunks(stdout) = LinesOf(SubSeq(history, 1, delivered - Undecoded))

\* C16 witness: ino /tmp/a /tmp/b; x.txt under /tmp/a was opened and then
\* closed after writing; the two records came in two reads of one drain
\* pass, and the Opened line precedes the ClosedWrite line.
C16_Witness ==
    /\ argc = 3
    /\ argv[1] = "/tmp/a"
    /\ argv[2] = "/tmp/b"
    /\ passReads = 2
    /\ stdout = << "Press ENTER key to exit.\n", "Listening for events.\n",
                   "IN_OPEN: ", "/tmp/a/", "x.txt", " [file]\n",
                   "IN_CLOSE_WRITE: ", "/tmp/a/", "x.txt", " [file]\n" >>

(***************************************************************************)
(* Records of no watch.                                                    *)
(***************************************************************************)
\* The record under the cursor (the buffer holds whole records).
Current == CHOOSE event \in EventsAt(buf, ptr) : TRUE

\* The chunks a step appends to stdout.
Appended == SubSeq(stdout', Len(stdout) + 1, Len(stdout'))

\* C17: an iteration of the loop over events on a record whose watch
\* descriptor equals no entry of wd[1..argc-1] writes one line that holds
\* no directory and no "/": its kind tags, its name if it has one, and the
\* annotation; the process does not exit, the cursor moves past the record,
\* and control stays in the loop or goes back to the read.
C17_UnknownWatchId ==
    [][ (pc = "decode" /\ ptr' # ptr /\ \A j \in 1..(argc - 1) : wd[j] # Current.wd)
            => /\ Len(stdout') > Len(stdout)
               /\ SubSeq(stdout', 1, Len(stdout)) = stdout
               /\ \A c \in 1..Len(Appended) : Appended[c] \notin DirChunks
               /\ Cardinality({ c \in 1..Len(Appended) : Appended[c] \in EndChunks }) = 1
               /\ Appended[Len(Appended)] \in EndChunks
               /\ Current.len # 0
                    => Len(Appended) >= 2 /\ Appended[Len(Appended) - 1] = Current.name
               /\ Len(Appended) = Len(KindTags(Current.mask)) + 1
                                    + (IF Current.len # 0 THEN 1 ELSE 0)
               /\ ptr' = ptr + RecordSize(Current)
               /\ pc' \in {"decode", "drain_read"}
               /\ pc' = "decode" <=> ptr' < len
               /\ UNCHANGED << exitStatus, stderr >>
      ]_vars

\* C17 witness: the first record delivered was of no watch, the second one
\* came in the same buffer; both have their line, the first one is the
\* annotation alone.
C17_Witness ==
    /\ Len(history) = 2
    /\ history[1].wd = -1
    /\ history[2].wd # -1
    /\ passReads = 1
    /\ Len(buf) = 2
    /\ EventLines(stdout) = 2
    /\ stdout[3] = " [file]\n"
    /\ stdout[Len(stdout)] \in EndChunks

(***************************************************************************)
(* The loop that reads the console.                                        *)
(***************************************************************************)
\* A step of the program in SHUTTING_DOWN: the operator and the kernel have
\* not moved.
ConsoleReadStep ==
    pc = "stdin_read" /\ UNCHANGED << typed, stdinEof, kernelVars >>

\* The two ways in which a read consumes a byte, and the end of stream:
\* a byte that is no newline is taken and the loop goes on; a newline is
\* taken and the process stops, the bytes after it left on the console; at
\* the end of the stream nothing is taken and the process stops.
ConsumesByteOrEnds ==
    \/ /\ stdin # << >> /\ (IF stdin = << >> THEN FALSE ELSE Head(stdin) # "\n")
       /\ nread' = 1
       /\ stdin' = Tail(stdin)
       /\ MuxState' = "SHUTTING_DOWN"
    \/ /\ stdin # << >> /\ (IF stdin = << >> THEN FALSE ELSE Head(stdin) = "\n")
       /\ nread' = 1
       /\ stdin' = Tail(stdin)
       /\ MuxState' = "STOPPED"
    \/ /\ stdin = << >> /\ stdinEof
       /\ nread' = 0
       /\ stdin' = stdin
       /\ MuxState' = "STOPPED"

InitFlood ==
    /\ argv = [k \in 0..1 |-> IF k = 0 THEN "ino" ELSE "/tmp/a"]
    /\ argc = 2
    /\ pc = "poll"
    /\ fd = "open"
    /\ wd = [k \in 0..1 |-> k]
    /\ i = 2
    /\ revents = [k \in {0, 1} |-> FALSE]
    /\ len = 0
    /\ errno = "none"
    /\ buf = << >>
    /\ ptr = 0
    /\ passReads = 0
    /\ nread = 0
    /\ stdout = << "Press ENTER key to exit.\n", "Listening for events.\n" >>
    /\ stderr = << >>
    /\ exitStatus = "none"
    /\ closeCalls = 0
    /\ freeCalls = 0
    /\ watches = [d \in Dirs |-> IF d = DirOf("/tmp/a") THEN 1 ELSE 0]
    /\ nextWd = 2
    /\ queue = << >>
    /\ generated = 0
    /\ history = << >>
    /\ delivered = 0
    /\ stdin = << >>
    /\ typed = 0
    /\ stdinEof = FALSE

\* The kernel queues a record whenever its queue has room.
KernelFlood ==
    /\ Running
    /\ fd = "open"
    /\ Len(queue) < MaxEvents
    /\ \E d \in Dirs, s \in EventShapes :
         LET event == [wd |-> watches[d], mask |-> s.mask, len |-> s.len, name |-> s.name]
         IN /\ watches[d] # 0
            /\ (IF queue = << >> THEN TRUE ELSE queue[Len(queue)] # event)
            /\ queue' = Append(queue, event)
    /\ UNCHANGED << progVars, watches, nextWd, generated, history, delivered, consoleVars >>

\* The read of lines 27-37, as in DrainRead.
DrainReadFlood ==
    /\ pc = "drain_read"
    /\ \E failed \in BOOLEAN :
         LET k == Fitting(queue)
             n == IF failed \/ queue = << >> THEN -1 ELSE SizeOf(SubSeq(queue, 1, k))
             e == IF failed THEN "EIO" ELSE IF queue = << >> THEN "EAGAIN" ELSE errno
         IN /\ len' = n
            /\ errno' = e
            /\ CASE ReadBranch(n, e) = "fatal" ->
                      /\ stderr' = Append(stderr, "read: EIO\n")
                      /\ pc' = "exited"
                      /\ exitStatus' = FatalStatus
                      /\ UNCHANGED << buf, ptr, queue >>
                 [] ReadBranch(n, e) = "return" ->
                      /\ pc' = "poll"
                      /\ UNCHANGED << buf, ptr, queue, stderr, exitStatus >>
                 [] OTHER ->
                      /\ buf' = SubSeq(queue, 1, k)
                      /\ queue' = SubSeq(queue, k + 1, Len(queue))
                      /\ ptr' = 0
                      /\ pc' = "decode"
                      /\ UNCHANGED << stderr, exitStatus >>
    /\ UNCHANGED << argc, argv, fd, wd, i, revents, nread, stdout, passReads,
                    closeCalls, freeCalls >>
    /\ UNCHANGED << watches, nextWd, generated, history, delivered, consoleVars >>

\* One iteration of the loop over events, as in DecodeRecord.
DecodeFlood ==
    /\ pc = "decode"
    /\ \E event \in EventsAt(buf, ptr) :
         /\ ptr' = NextPtr(ptr, event)
         /\ pc' = AfterRecord(ptr', len)
    /\ UNCHANGED << argc, argv, fd, wd, i, revents, len, errno, buf, passReads,
                    nread, stdout, stderr, exitStatus, closeCalls, freeCalls >>
    /\ UNCHANGED << kernelVars, consoleVars >>

NextFlood ==
    \/ PollInterrupted
    \/ PollFails
    \/ PollReady
    \/ StdinRead
    \/ DrainReadFlood
    \/ DecodeFlood
    \/ KernelFlood
    \/ OperatorTypes
    \/ OperatorCloses

\* The program is scheduled: a step of it that stays possible is taken.
\* Nothing is assumed of the kernel and of the operator.
SpecFlood ==
    /\ InitFlood
    /\ [][NextFlood]_vars
    /\ WF_vars(PollReady)
    /\ WF_vars(StdinRead)
    /\ WF_vars(DrainReadFlood)
    /\ WF_vars(DecodeFlood)

\* C19: from the moment a newline is on the console, the process
\* eventually stops or ends on a fatal error.
C19_EventuallyStopped ==
    (\E k \in 1..Len(stdin) : stdin[k] = "\n") ~> (MuxState \in {"STOPPED", "FAILED"})

====
